---------------------------- MODULE Spec2Model ----------------------------
(***************************************************************************)
(* Blocke (src/script.js): a grid puzzle whose tiles crystallize into      *)
(* walls behind the player.  The model covers the session created by       *)
(* createGame, the move processor attemptMove with the rule engine         *)
(* applyTileRule and the liveness checker checkFailure, and the two        *)
(* presentation handlers (the animation tick draw and the reveal button).  *)
(* Canvas drawing and DOM writes are left out: they read the session and   *)
(* change nothing in it.                                                   *)
(***************************************************************************)
EXTENDS Integers, Sequences, FiniteSets

VARIABLES
    game,     \* the current session (script.js: let game)
    shadow,   \* a second session from the same createGame call that receives
              \* the move attempts only, never a tick or a reveal (in the
              \* long sessions: whose histories are never cut)
    lastOp,   \* history: what the last handler did
    trace,    \* history: the accepted moves so far, oldest first
    ticks     \* history: number of tick and reveal events so far

vars == <<game, shadow, lastOp, trace, ticks>>

---------------------------------------------------------------------------
(* Bounds of the model.                                                    *)

\* Side of the grid.  The program fixes it at 18 (script.js line 11); the
\* model scales it down so that every cell, the exit included, is within
\* reach of an exhaustive search.
gridSize == 4

\* Accepted moves explored per session.
MaxMoves == 5

\* Tick and reveal events explored per session.
MaxTicks == 1

\* Seeds explored: the integer Math.floor(seed * 1e9) handed to mulberry32.
Seeds == {19, 28}

---------------------------------------------------------------------------
(* 32-bit words.  TLC's integers are 32-bit signed, so an unsigned 32-bit  *)
(* word is kept as <<high 16 bits, low 16 bits>>.                          *)

B16 == 65536

\* The word of a natural number below 2^31.
ToWord(n) == <<(n \div B16) % B16, n % B16>>

RECURSIVE Xor16(_, _, _)
Xor16(a, b, n) ==
    IF n = 0 THEN 0
    ELSE (((a % 2) + (b % 2)) % 2) + 2 * Xor16(a \div 2, b \div 2, n - 1)

RECURSIVE Or16(_, _, _)
Or16(a, b, n) ==
    IF n = 0 THEN 0
    ELSE (IF (a % 2) = 1 \/ (b % 2) = 1 THEN 1 ELSE 0)
         + 2 * Or16(a \div 2, b \div 2, n - 1)

\* x ^ y
Xor32(x, y) == <<Xor16(x[1], y[1], 16), Xor16(x[2], y[2], 16)>>

\* x | y
Or32(x, y) == <<Or16(x[1], y[1], 16), Or16(x[2], y[2], 16)>>

\* (x + y) mod 2^32
Add32(x, y) ==
    LET lo == x[2] + y[2]
    IN  <<(x[1] + y[1] + (lo \div B16)) % B16, lo % B16>>

RECURSIVE Pow2(_)
Pow2(k) == IF k = 0 THEN 1 ELSE 2 * Pow2(k - 1)

\* x >>> k, for 0 < k < 16
Shr32(x, k) ==
    <<x[1] \div Pow2(k), ((x[1] % Pow2(k)) * Pow2(16 - k)) + (x[2] \div Pow2(k))>>

\* The low 16 bits of a * b, for a, b < 2^16, without leaving 31 bits.
MulLo16(a, b) == ((a * (b % 256)) + (((a * (b \div 256)) % 256) * 256)) % B16

\* The 32-bit product of a, b < 2^16 as a word.
Mul16(a, b) ==
    LET p1 == a * (b \div 256)                 \* < 2^24, weight 2^8
        p0 == a * (b % 256)                    \* < 2^24
        low == ((p1 % 256) * 256) + p0          \* < 2^25
    IN  <<((p1 \div 256) + (low \div B16)) % B16, low % B16>>

\* Math.imul(x, y): the low 32 bits of the product.
Imul(x, y) ==
    LET ll == Mul16(x[2], y[2])
        cross == (MulLo16(x[1], y[2]) + MulLo16(x[2], y[1])) % B16
    IN  <<(ll[1] + cross) % B16, ll[2]>>

\* Math.floor(u / 4294967296 * n) for a word u and a small n: the double
\* arithmetic is exact here, as u * n stays below 2^53.
FloorMul(u, n) == ((u[1] * n) + ((u[2] * n) \div B16)) \div B16

---------------------------------------------------------------------------
(* The seeded generator.                                                   *)

\* 0x6d2b79f5
Gamma == <<27947, 31221>>

\* One call of the closure mulberry32 returns: the new closure state a and
\* the 32-bit numerator of the float it yields.
mulberry32(a) ==
    LET a1 == Add32(a, Gamma)
        t1 == Imul(Xor32(a1, Shr32(a1, 15)), Or32(a1, <<0, 1>>))
        t2 == Xor32(t1, Add32(t1, Imul(Xor32(t1, Shr32(t1, 7)), Or32(t1, <<0, 61>>))))
    IN  [a |-> a1, out |-> Xor32(t2, Shr32(t2, 14))]

\* The closure state after n calls.
RECURSIVE RngAfter(_, _)
RngAfter(a, n) == IF n = 0 THEN a ELSE Add32(RngAfter(a, n - 1), Gamma)

\* The first n values rng() yields from closure state a, in order.
Draws(a, n) == [k \in 1 .. n |-> mulberry32(RngAfter(a, k - 1)).out]

---------------------------------------------------------------------------
(* Constants of the game.                                                  *)

directions == <<
    [x |-> 0,  y |-> -1, name |-> "north"],
    [x |-> 1,  y |-> 0,  name |-> "east"],
    [x |-> 0,  y |-> 1,  name |-> "south"],
    [x |-> -1, y |-> 0,  name |-> "west"] >>

\* The names of the archetypes, in the order of the array.
archetypes == <<"third-exit", "north-entry", "sequence", "frequency", "backtrack">>

MsgLearning == "Learning..."
MsgBlocked == "Crystallized path blocks the way."
MsgCrystal == "A path crystallizes behind you."
MsgWin == "Exit reached. The maze remembers your path."
MsgSealed == "The maze has sealed. No route remains."
MsgTrapped == "You are sealed inside your own pattern."

Coords == (0 .. gridSize - 1) \X (0 .. gridSize - 1)

InGrid(nx, ny) == ~(nx < 0 \/ ny < 0 \/ nx >= gridSize \/ ny >= gridSize)

---------------------------------------------------------------------------
(* Session creation.                                                       *)

\* The swap loop of shuffle from index i down to 1; draws[k] is the k-th
\* value of the generator and the loop at index i uses draw Len(list) - i.
RECURSIVE shuffleFrom(_, _, _)
shuffleFrom(array, i, draws) ==
    IF i < 1 THEN array
    ELSE LET j == FloorMul(draws[Len(array) - i], i + 1) + 1   \* 1-based
             swapped == [array EXCEPT ![i + 1] = array[j], ![j] = array[i + 1]]
         IN  shuffleFrom(swapped, i - 1, draws)

shuffle(list, draws) == shuffleFrom(list, Len(list) - 1, draws)

\* Number of generator calls createGame makes.
NumDraws == 8 + (gridSize * gridSize)

createGame(seed) ==
    LET a0 == ToWord(seed)
        d == Draws(a0, NumDraws)
        archetypePool == SubSeq(shuffle(archetypes, d), 1, 4)
        thresholds == [
            thirdExit |-> 3 + FloorMul(d[5], 2),
            frequencyWindow |-> 6 + FloorMul(d[6], 4),
            frequencyCount |-> 3 + FloorMul(d[7], 2),
            backtrackWindow |-> 4 + FloorMul(d[8], 3) ]
        player == [x |-> 1, y |-> 1]
        exit == [x |-> gridSize - 2, y |-> gridSize - 2]
        grid == [c \in Coords |->
            [ x |-> c[1],
              y |-> c[2],
              archetype |->
                  archetypePool[FloorMul(d[8 + (c[2] * gridSize) + c[1] + 1],
                                         Len(archetypePool)) + 1],
              state |-> IF c = <<exit.x, exit.y>> THEN "exit"
                        ELSE IF c = <<player.x, player.y>> THEN "safe"
                        ELSE "neutral",
              leaveCount |-> 0,
              visits |-> 0,
              lastEntry |-> "null",
              reveal |-> 0 ] ]
    IN  [ rng |-> RngAfter(a0, NumDraws),
          grid |-> grid,
          player |-> player,
          exit |-> exit,
          moveCount |-> 0,
          crystallized |-> 0,
          recentDirections |-> <<>>,
          recentArchetypes |-> <<>>,
          recentPositions |-> <<>>,
          thresholds |-> thresholds,
          archetypePool |-> archetypePool,
          message |-> MsgLearning,
          revealTimer |-> 0 ]

---------------------------------------------------------------------------
(* The rule engine.                                                        *)

\* Array.prototype.slice(-n) for n >= 1: the last n entries, or all of them.
SliceLast(s, n) == IF Len(s) <= n THEN s ELSE SubSeq(s, Len(s) - n + 1, Len(s))

\* The third-exit trigger with a strict comparison.
triggerThirdExit_strict(tile, state) ==
    tile.leaveCount > state.thresholds.thirdExit

\* archetypes[0].trigger: "third-exit"
triggerThirdExit(tile, state) ==
    tile.leaveCount >= state.thresholds.thirdExit

\* archetypes[1].trigger: "north-entry"
triggerNorthEntry(tile, state) ==
    tile.lastEntry = "north"

\* archetypes[2].trigger: "sequence"
triggerSequence(tile, state) ==
    LET arr == SliceLast(state.recentDirections, 2)
    IN  \A k \in 1 .. Len(arr) : arr[k] = arr[1]

\* archetypes[3].trigger: "frequency"
triggerFrequency(tile, state) ==
    LET recent == SliceLast(state.recentArchetypes,
                            state.thresholds.frequencyWindow)
        count == Cardinality({k \in 1 .. Len(recent) :
                                  recent[k] = tile.archetype})
    IN  count >= state.thresholds.frequencyCount

\* archetypes[4].trigger: "backtrack"
triggerBacktrack(tile, state) ==
    LET recent == SliceLast(state.recentPositions,
                            state.thresholds.backtrackWindow)
    IN  \E k \in 1 .. Len(recent) :
            recent[k].x = tile.x /\ recent[k].y = tile.y

\* archetype.trigger(tile, game) of the archetype called name.
trigger(name, tile, state) ==
    CASE name = "third-exit" -> triggerThirdExit(tile, state)
      [] name = "north-entry" -> triggerNorthEntry(tile, state)
      [] name = "sequence" -> triggerSequence(tile, state)
      [] name = "frequency" -> triggerFrequency(tile, state)
      [] name = "backtrack" -> triggerBacktrack(tile, state)

\* tile.reveal is kept in hundredths: the 1 of line 224 is RevealFull, the
\* 0.02 of line 285 is RevealStep.
RevealFull == 100
RevealStep == 2

flashMessage(g, message) == [g EXCEPT !.message = message]

\* applyTileRule whose guard forgets the exit: only a wall returns early.
applyTileRule_noExitGuard(g, c) ==
    LET tile == g.grid[c]
    IN  IF tile.state = "wall" THEN g
        ELSE IF trigger(tile.archetype, tile, g)
        THEN flashMessage(
                 [g EXCEPT !.grid[c].state = "wall",
                           !.grid[c].reveal = RevealFull,
                           !.crystallized = @ + 1],
                 MsgCrystal)
        ELSE g

\* applyTileRule that hardens the tile when the trigger of any archetype
\* fires (archetypes.some for archetypes.find).
applyTileRule_anyRule(g, c) ==
    LET tile == g.grid[c]
    IN  IF tile.state = "wall" \/ tile.state = "exit" THEN g
        ELSE IF \E k \in 1 .. Len(archetypes) : trigger(archetypes[k], tile, g)
        THEN flashMessage(
                 [g EXCEPT !.grid[c].state = "wall",
                           !.grid[c].reveal = RevealFull,
                           !.crystallized = @ + 1],
                 MsgCrystal)
        ELSE g

\* applyTileRule that hardens the tile without counting it.
applyTileRule_noCount(g, c) ==
    LET tile == g.grid[c]
    IN  IF tile.state = "wall" \/ tile.state = "exit" THEN g
        ELSE IF trigger(tile.archetype, tile, g)
        THEN flashMessage(
                 [g EXCEPT !.grid[c].state = "wall",
                           !.grid[c].reveal = RevealFull],
                 MsgCrystal)
        ELSE g

\* applyTileRule(tile) for the tile at coordinate c of session g.
applyTileRule(g, c) ==
    LET tile == g.grid[c]
    IN  IF tile.state = "wall" \/ tile.state = "exit" THEN g
        ELSE IF ~(\E k \in 1 .. Len(archetypes) : archetypes[k] = tile.archetype)
        THEN g
        ELSE IF trigger(tile.archetype, tile, g)
        THEN flashMessage(
                 [g EXCEPT !.grid[c].state = "wall",
                           !.grid[c].reveal = RevealFull,
                           !.crystallized = @ + 1],
                 MsgCrystal)
        ELSE g

---------------------------------------------------------------------------
(* The liveness checker.                                                   *)

isTrapped(player, grid) ==
    \A k \in 1 .. Len(directions) :
        LET nx == player.x + directions[k].x
            ny == player.y + directions[k].y
        IN  IF ~InGrid(nx, ny) THEN TRUE
            ELSE grid[<<nx, ny>>].state = "wall"

\* The for loop of pathExists over directions[k..] around current: the
\* queue and the visited set after it.
RECURSIVE pathExpand(_, _, _, _, _)
pathExpand(k, current, queue, visited, grid) ==
    IF k > Len(directions) THEN [queue |-> queue, visited |-> visited]
    ELSE LET nx == current.x + directions[k].x
             ny == current.y + directions[k].y
         IN  IF ~InGrid(nx, ny) \/ <<nx, ny>> \in visited
                \/ grid[<<nx, ny>>].state = "wall"
             THEN pathExpand(k + 1, current, queue, visited, grid)
             ELSE pathExpand(k + 1, current,
                             Append(queue, [x |-> nx, y |-> ny]),
                             visited \cup {<<nx, ny>>}, grid)

\* The while loop of pathExists.
RECURSIVE pathLoop(_, _, _, _)
pathLoop(queue, visited, goal, grid) ==
    IF Len(queue) = 0 THEN FALSE
    ELSE LET current == Head(queue)
         IN  IF current.x = goal.x /\ current.y = goal.y THEN TRUE
             ELSE LET r == pathExpand(1, current, Tail(queue), visited, grid)
                  IN  pathLoop(r.queue, r.visited, goal, grid)

\* pathExists that only looks at the goal's four neighbours.
pathExists_goalNotEnclosed(start, goal, grid) == ~isTrapped(goal, grid)

pathExists(start, goal, grid) ==
    pathLoop(<<start>>, {<<start.x, start.y>>}, goal, grid)

\* checkFailure that reports sealing only once the player is walled in.
checkFailure_trappedOnly(g) ==
    IF isTrapped(g.player, g.grid) THEN flashMessage(g, MsgSealed) ELSE g

checkFailure(g) ==
    IF ~pathExists(g.player, g.exit, g.grid) THEN flashMessage(g, MsgSealed)
    ELSE IF isTrapped(g.player, g.grid) THEN flashMessage(g, MsgTrapped)
    ELSE g

---------------------------------------------------------------------------
(* Presentation handlers.                                                  *)

RevealTimerStart == 60

Max(a, b) == IF a >= b THEN a ELSE b

\* draw that writes the status back: every frame resets the message.
draw_resetsMessage(g) ==
    [g EXCEPT
        !.message = MsgLearning,
        !.revealTimer = IF @ > 0 THEN @ - 1 ELSE @,
        !.grid = [c \in Coords |->
                     IF g.grid[c].reveal > 0
                     THEN [g.grid[c] EXCEPT !.reveal = Max(0, @ - RevealStep)]
                     ELSE g.grid[c]] ]

\* draw(): the countdown and the decay; the DOM and canvas writes read only.
draw(g) ==
    [g EXCEPT
        !.revealTimer = IF @ > 0 THEN @ - 1 ELSE @,
        !.grid = [c \in Coords |->
                     IF g.grid[c].reveal > 0
                     THEN [g.grid[c] EXCEPT !.reveal = Max(0, @ - RevealStep)]
                     ELSE g.grid[c]] ]

reveal(g) == [g EXCEPT !.revealTimer = RevealTimerStart]

---------------------------------------------------------------------------
(* The move processor.                                                     *)

CapDirections == 12
CapArchetypes == 20
CapPositions == 14

\* push that keeps nothing but the entry just pushed.
Push_keepsNewestOnly(s, e, cap) == <<e>>

\* push that, on overflow, drops the entry just pushed (pop for shift).
Push_dropsNewest(s, e, cap) ==
    LET t == Append(s, e) IN IF Len(t) > cap THEN SubSeq(t, 1, cap) ELSE t

\* push(e) followed by shift() when the length exceeds cap.
Push(s, e, cap) ==
    LET t == Append(s, e) IN IF Len(t) > cap THEN Tail(t) ELSE t

\* directions.find((dir) => dir.x === dx && dir.y === dy)?.name ?? dflt
DirectionName(dx, dy, dflt) ==
    IF \E k \in 1 .. Len(directions) : directions[k].x = dx /\ directions[k].y = dy
    THEN directions[CHOOSE k \in 1 .. Len(directions) :
                        /\ directions[k].x = dx /\ directions[k].y = dy
                        /\ \A m \in 1 .. k - 1 :
                               ~(directions[m].x = dx /\ directions[m].y = dy)].name
    ELSE dflt

\* moveInto that evaluates the rule of the vacated tile last, after the
\* messages of the move have been set.
moveInto_ruleLast(g, dx, dy) ==
    LET nx == g.player.x + dx
        ny == g.player.y + dy
        dest == <<nx, ny>>
        cur == <<g.player.x, g.player.y>>
        g1 == [g EXCEPT !.grid[cur].leaveCount = @ + 1]
        g2 == [g1 EXCEPT
                 !.grid[dest].lastEntry = DirectionName(dx, dy, "null"),
                 !.grid[dest].visits = @ + 1,
                 !.player = [x |-> nx, y |-> ny],
                 !.recentDirections =
                     Push(@, DirectionName(dx, dy, "none"), CapDirections),
                 !.recentArchetypes =
                     Push(@, g1.grid[dest].archetype, CapArchetypes),
                 !.recentPositions =
                     Push(@, [x |-> nx, y |-> ny], CapPositions),
                 !.moveCount = @ + 1,
                 !.message = MsgLearning]
    IN  IF g2.grid[dest].state = "exit"
        THEN draw(applyTileRule(flashMessage(g2, MsgWin), cur))
        ELSE LET g3 == IF g2.grid[dest].state = "neutral"
                       THEN [g2 EXCEPT !.grid[dest].state = "safe"]
                       ELSE g2
             IN  draw(applyTileRule(checkFailure(g3), cur))

\* attemptMove from line 171 on: the move onto the in-grid, non-wall
\* destination (nx, ny).
moveInto(g, dx, dy) ==
    LET nx == g.player.x + dx
        ny == g.player.y + dy
        dest == <<nx, ny>>
        cur == <<g.player.x, g.player.y>>
        g1 == applyTileRule([g EXCEPT !.grid[cur].leaveCount = @ + 1], cur)
        g2 == [g1 EXCEPT
                 !.grid[dest].lastEntry = DirectionName(dx, dy, "null"),
                 !.grid[dest].visits = @ + 1,
                 !.player = [x |-> nx, y |-> ny],
                 !.recentDirections =
                     Push(@, DirectionName(dx, dy, "none"), CapDirections),
                 !.recentArchetypes =
                     Push(@, g1.grid[dest].archetype, CapArchetypes),
                 !.recentPositions =
                     Push(@, [x |-> nx, y |-> ny], CapPositions),
                 !.moveCount = @ + 1,
                 !.message = MsgLearning]
    IN  IF g2.grid[dest].state = "exit"
        THEN draw(flashMessage(g2, MsgWin))
        ELSE LET g3 == IF g2.grid[dest].state = "neutral"
                       THEN [g2 EXCEPT !.grid[dest].state = "safe"]
                       ELSE g2
             IN  draw(checkFailure(g3))

\* attemptMove without the wall test of line 166.
attemptMove_walksIntoWalls(g, dx, dy) ==
    IF ~InGrid(g.player.x + dx, g.player.y + dy) THEN g
    ELSE moveInto(g, dx, dy)

\* attemptMove with the grid's edge treated like a wall.
attemptMove_edgeBlocks(g, dx, dy) ==
    LET nx == g.player.x + dx
        ny == g.player.y + dy
    IN  IF ~InGrid(nx, ny) THEN flashMessage(g, MsgBlocked)
        ELSE IF g.grid[<<nx, ny>>].state = "wall"
        THEN flashMessage(g, MsgBlocked)
        ELSE moveInto(g, dx, dy)

\* attemptMove whose wall branch counts the vacate before it returns.
attemptMove_blockedLeaves(g, dx, dy) ==
    LET nx == g.player.x + dx
        ny == g.player.y + dy
        cur == <<g.player.x, g.player.y>>
    IN  IF ~InGrid(nx, ny) THEN g
        ELSE IF g.grid[<<nx, ny>>].state = "wall"
        THEN flashMessage([g EXCEPT !.grid[cur].leaveCount = @ + 1], MsgBlocked)
        ELSE moveInto(g, dx, dy)

\* attemptMove that counts attempts: the wall branch increments moveCount.
attemptMove_countsBlocked(g, dx, dy) ==
    LET nx == g.player.x + dx
        ny == g.player.y + dy
    IN  IF ~InGrid(nx, ny) THEN g
        ELSE IF g.grid[<<nx, ny>>].state = "wall"
        THEN flashMessage([g EXCEPT !.moveCount = @ + 1], MsgBlocked)
        ELSE moveInto(g, dx, dy)

\* attemptMove whose wall branch clears the wall it ran into.
attemptMove_breaksWall(g, dx, dy) ==
    LET nx == g.player.x + dx
        ny == g.player.y + dy
    IN  IF ~InGrid(nx, ny) THEN g
        ELSE IF g.grid[<<nx, ny>>].state = "wall"
        THEN flashMessage([g EXCEPT !.grid[<<nx, ny>>].state = "neutral"],
                          MsgBlocked)
        ELSE moveInto(g, dx, dy)

\* attemptMove(dx, dy) on the session g; game is never null once the script
\* has loaded.
attemptMove(g, dx, dy) ==
    LET nx == g.player.x + dx
        ny == g.player.y + dy
    IN  IF ~InGrid(nx, ny) THEN g
        ELSE IF g.grid[<<nx, ny>>].state = "wall"
        THEN flashMessage(g, MsgBlocked)
        ELSE moveInto(g, dx, dy)

---------------------------------------------------------------------------
(* The state machine: the session after the script has loaded (reset() at  *)
(* line 376), then key presses, animation ticks and reveal clicks.         *)

\* Which return of attemptMove a move attempt takes.
MoveKind(g, dx, dy) ==
    LET nx == g.player.x + dx
        ny == g.player.y + dy
    IN  IF ~InGrid(nx, ny) THEN "oob"
        ELSE IF g.grid[<<nx, ny>>].state = "wall" THEN "blocked"
        ELSE IF g.grid[<<nx, ny>>].state = "exit" THEN "won"
        ELSE "moved"

Accepted(g, dx, dy) == MoveKind(g, dx, dy) \in {"won", "moved"}

Init ==
    /\ \E seed \in Seeds : game = draw(createGame(seed))
    /\ shadow = game
    /\ lastOp = "init"
    /\ trace = <<>>
    /\ ticks = 0

\* handleKey: the move attempt of one of the four direction keys.
KeyPress(k) ==
    LET dx == directions[k].x
        dy == directions[k].y
    IN  /\ game' = attemptMove(game, dx, dy)
        /\ shadow' = attemptMove(shadow, dx, dy)
        /\ lastOp' = MoveKind(game, dx, dy)
        /\ trace' = IF Accepted(game, dx, dy)
                    THEN Append(trace, [name |-> directions[k].name,
                                        from |-> game.player,
                                        to |-> [x |-> game.player.x + dx,
                                                y |-> game.player.y + dy]])
                    ELSE trace
        /\ UNCHANGED ticks

\* A key press of a session of at most MaxMoves accepted moves.
AttemptMove(k) ==
    /\ Accepted(game, directions[k].x, directions[k].y)
           => game.moveCount < MaxMoves
    /\ KeyPress(k)

\* setInterval(draw, 1000 / 30)
Tick ==
    /\ ticks < MaxTicks
    /\ game' = draw(game)
    /\ lastOp' = "tick"
    /\ ticks' = ticks + 1
    /\ UNCHANGED <<shadow, trace>>

\* The click handler of the reveal button: reveal(); draw().
RevealClick ==
    /\ ticks < MaxTicks
    /\ game' = draw(reveal(game))
    /\ lastOp' = "reveal"
    /\ ticks' = ticks + 1
    /\ UNCHANGED <<shadow, trace>>

Next ==
    \/ \E k \in 1 .. Len(directions) : AttemptMove(k)
    \/ Tick
    \/ RevealClick

Spec == Init /\ [][Next]_vars

---------------------------------------------------------------------------
(* Long sessions: the history buffers overflow only after 12, 14 and 20    *)
(* accepted moves.  The player opens with FreeMoves moves of any kind and  *)
(* then keeps walking: back to the tile it came from when that move is     *)
(* accepted, and otherwise to the first neighbour, in the order of         *)
(* directions, that accepts the move.  Keys that are rejected may be       *)
(* pressed at any time.                                                    *)

\* Accepted moves of a long session.
MaxLongMoves == 22

\* Accepted moves of the free opening of a long session.
FreeMoves == 3

\* Seeds of the long sessions.
LongSeeds == {16, 32}

InitLong ==
    /\ \E seed \in LongSeeds : game = draw(createGame(seed))
    /\ shadow = game
    /\ lastOp = "init"
    /\ trace = <<>>
    /\ ticks = 0

\* The key of the direction opposite to the last accepted move.
BackKey ==
    CHOOSE k \in 1 .. Len(directions) :
        /\ directions[k].x = 0 - (trace[Len(trace)].to.x - trace[Len(trace)].from.x)
        /\ directions[k].y = 0 - (trace[Len(trace)].to.y - trace[Len(trace)].from.y)

\* The walker's preference among the keys: the way back first.
KeyRank(k) == IF k = BackKey THEN 0 ELSE k

WalkerKey(k) ==
    IF Len(trace) < FreeMoves THEN TRUE
    ELSE \A j \in 1 .. Len(directions) :
             Accepted(game, directions[j].x, directions[j].y)
                 => KeyRank(k) <= KeyRank(j)

\* moveInto with push alone: no history is ever shifted.
moveIntoUnbounded(g, dx, dy) ==
    LET nx == g.player.x + dx
        ny == g.player.y + dy
        dest == <<nx, ny>>
        cur == <<g.player.x, g.player.y>>
        g1 == applyTileRule([g EXCEPT !.grid[cur].leaveCount = @ + 1], cur)
        g2 == [g1 EXCEPT
                 !.grid[dest].lastEntry = DirectionName(dx, dy, "null"),
                 !.grid[dest].visits = @ + 1,
                 !.player = [x |-> nx, y |-> ny],
                 !.recentDirections = Append(@, DirectionName(dx, dy, "none")),
                 !.recentArchetypes = Append(@, g1.grid[dest].archetype),
                 !.recentPositions = Append(@, [x |-> nx, y |-> ny]),
                 !.moveCount = @ + 1,
                 !.message = MsgLearning]
    IN  IF g2.grid[dest].state = "exit"
        THEN draw(flashMessage(g2, MsgWin))
        ELSE LET g3 == IF g2.grid[dest].state = "neutral"
                       THEN [g2 EXCEPT !.grid[dest].state = "safe"]
                       ELSE g2
             IN  draw(checkFailure(g3))

attemptMoveUnbounded(g, dx, dy) ==
    LET nx == g.player.x + dx
        ny == g.player.y + dy
    IN  IF ~InGrid(nx, ny) THEN g
        ELSE IF g.grid[<<nx, ny>>].state = "wall"
        THEN flashMessage(g, MsgBlocked)
        ELSE moveIntoUnbounded(g, dx, dy)

\* A key press of a long session.  The second session takes the same
\* attempt through the processor whose histories are never cut.
LongMove(k) ==
    LET dx == directions[k].x
        dy == directions[k].y
    IN  /\ Accepted(game, dx, dy)
               => (game.moveCount < MaxLongMoves /\ WalkerKey(k))
        /\ game' = attemptMove(game, dx, dy)
        /\ shadow' = attemptMoveUnbounded(shadow, dx, dy)
        /\ lastOp' = MoveKind(game, dx, dy)
        /\ trace' = IF Accepted(game, dx, dy)
                    THEN Append(trace, [name |-> directions[k].name,
                                        from |-> game.player,
                                        to |-> [x |-> game.player.x + dx,
                                                y |-> game.player.y + dy]])
                    ELSE trace
        /\ UNCHANGED ticks

NextLong == \E k \in 1 .. Len(directions) : LongMove(k)

SpecLong == InitLong /\ [][NextLong]_vars

---------------------------------------------------------------------------
(* Properties.                                                             *)

\* The last accepted move, when the last handler was one.
JustMoved == lastOp \in {"moved", "won"}
LastMove == trace[Len(trace)]
Vacated == <<LastMove.from.x, LastMove.from.y>>
ExitC == <<game.exit.x, game.exit.y>>
Walls == {c \in Coords : game.grid[c].state = "wall"}

\* C1: right after an accepted, non-winning move that leaves the player on
\* a tile whose four neighbours are all walls or off-grid, the message is
\* the entrapment message.
C1_EntrapmentMessage ==
    (lastOp = "moved" /\ isTrapped(game.player, game.grid))
        => game.message = MsgTrapped

\* C2: in every reachable state, a move attempt whose destination is a wall
\* changes nothing but the message, which becomes the blocked message.
C2_BlockedMoveRejected ==
    \A k \in 1 .. Len(directions) :
        LET nx == game.player.x + directions[k].x
            ny == game.player.y + directions[k].y
        IN  (InGrid(nx, ny) /\ game.grid[<<nx, ny>>].state = "wall")
                => attemptMove(game, directions[k].x, directions[k].y)
                       = [game EXCEPT !.message = MsgBlocked]

\* A blocked attempt has just been made, after some tile was vacated and
\* ticked: its leaveCount, the histories and moveCount are not initial.
C2_Witness ==
    /\ lastOp = "blocked"
    /\ game.message = MsgBlocked
    /\ game.moveCount >= 2
    /\ Walls # {}

\* C3: once a tile is a wall it is a wall after every further step.
C3_WallAbsorbing ==
    [][\A c \in Coords :
          game.grid[c].state = "wall" => game'.grid[c].state = "wall"]_vars

\* A wall that has outlived a later accepted move and a blocked attempt.
C3_Witness ==
    /\ lastOp = "blocked"
    /\ \E i \in 1 .. Len(trace) - 1 :
           game.grid[<<trace[i].from.x, trace[i].from.y>>].state = "wall"

\* C4: the tile at the exit coordinate always has state exit, and a move
\* that starts on it leaves the crystallized count alone.
C4_ExitNeverHardens ==
    /\ ExitC = <<gridSize - 2, gridSize - 2>>
    /\ game.grid[ExitC].state = "exit"
    /\ game.player = game.exit =>
           \A k \in 1 .. Len(directions) :
               attemptMove(game, directions[k].x, directions[k].y).crystallized
                   = game.crystallized

\* The player has won and stepped off the exit again.
C4_Witness ==
    /\ lastOp = "moved"
    /\ LastMove.from = game.exit
    /\ game.grid[ExitC].leaveCount = 1

\* C5: moveCount is the number of accepted moves so far, and the player
\* stands where the last accepted move led (at the start before any).
C5_MoveCountCountsAccepted ==
    /\ game.moveCount = Len(trace)
    /\ game.player = IF Len(trace) = 0 THEN [x |-> 1, y |-> 1] ELSE LastMove.to

\* Accepted moves, then a presentation event, then a blocked attempt.
C5_Witness ==
    /\ lastOp = "blocked"
    /\ ticks >= 1
    /\ game.moveCount >= 3

DirectionsBefore == [i \in 1 .. Len(trace) - 1 |-> trace[i].name]

\* C7: a non-exit tile of archetype sequence has become a wall on being
\* vacated exactly when at least two directions had been recorded before
\* the move and the last two of them were equal.
C7_SequenceNeedsTwo ==
    (JustMoved /\ Vacated # ExitC /\ game.grid[Vacated].archetype = "sequence")
        => (game.grid[Vacated].state = "wall"
              <=> /\ Len(DirectionsBefore) >= 2
                  /\ DirectionsBefore[Len(DirectionsBefore)]
                         = DirectionsBefore[Len(DirectionsBefore) - 1])

\* The times the player has occupied cell c up to and including the stay
\* that the last accepted move ended: the entries, and the start.
Occupancies(c) ==
    Cardinality({i \in 1 .. Len(trace) - 1 : <<trace[i].to.x, trace[i].to.y>> = c})
        + (IF c = <<1, 1>> THEN 1 ELSE 0)

\* C8: a non-exit tile of archetype backtrack has become a wall on being
\* vacated only if the stay just ended was a return to it.
C8_BacktrackOnlyOnReturn ==
    (JustMoved /\ Vacated # ExitC /\ game.grid[Vacated].archetype = "backtrack"
               /\ game.grid[Vacated].state = "wall")
        => Occupancies(Vacated) >= 2

\* The gameplay fields of a session: all but tile.reveal and revealTimer.
Gameplay(g) ==
    [ tiles |-> [c \in Coords |->
                    [ x |-> g.grid[c].x, y |-> g.grid[c].y,
                      archetype |-> g.grid[c].archetype,
                      state |-> g.grid[c].state,
                      leaveCount |-> g.grid[c].leaveCount,
                      visits |-> g.grid[c].visits,
                      lastEntry |-> g.grid[c].lastEntry ]],
      player |-> g.player,
      exit |-> g.exit,
      moveCount |-> g.moveCount,
      crystallized |-> g.crystallized,
      recentDirections |-> g.recentDirections,
      recentArchetypes |-> g.recentArchetypes,
      recentPositions |-> g.recentPositions,
      message |-> g.message ]

\* C10: the session that also receives ticks and reveal clicks agrees in
\* every gameplay field with the one that receives the move attempts alone.
C10_TicksLeaveGameplay == Gameplay(game) = Gameplay(shadow)

\* A reveal click in the middle of play, with a wall decaying: the two
\* sessions differ in their presentation fields.
C10_Witness ==
    /\ ticks >= 1
    /\ JustMoved
    /\ game.revealTimer > 0
    /\ game.revealTimer # shadow.revealTimer
    /\ \E c \in Walls : game.grid[c].reveal # shadow.grid[c].reveal

\* C11: in every reachable state, a move attempt whose destination lies
\* outside the grid leaves the whole session as it was: the message, the
\* leaveCount of the tile under the player, the histories and moveCount
\* included.
C11_OutOfBoundsNoOp ==
    \A k \in 1 .. Len(directions) :
        ~InGrid(game.player.x + directions[k].x,
                game.player.y + directions[k].y)
            => attemptMove(game, directions[k].x, directions[k].y) = game

\* An attempt across the edge has just been made in a session whose message
\* is not the initial one and that has walls and histories to lose.
C11_Witness ==
    /\ lastOp = "oob"
    /\ game.message \in {MsgBlocked, MsgSealed}
    /\ game.crystallized >= 1
    /\ Len(game.recentDirections) >= 2

\* The directions, destination archetypes and destination positions of all
\* accepted moves so far, oldest first.
AllDirections == [i \in 1 .. Len(trace) |-> trace[i].name]
AllArchetypes ==
    [i \in 1 .. Len(trace) |-> game.grid[<<trace[i].to.x, trace[i].to.y>>].archetype]
AllPositions == [i \in 1 .. Len(trace) |-> trace[i].to]

\* The n newest entries of s, oldest first (all of s when it is shorter).
Newest(s, n) ==
    LET m == IF Len(s) < n THEN Len(s) ELSE n
    IN  [i \in 1 .. m |-> s[Len(s) - m + i]]

\* C12: after n accepted moves the three histories hold, oldest first, the
\* direction, the destination archetype and the destination position of
\* the newest min(n, 12), min(n, 20) and min(n, 14) accepted moves;
\* rejected attempts add nothing.
C12_HistoriesAreWindows ==
    /\ game.recentDirections = Newest(AllDirections, 12)
    /\ game.recentArchetypes = Newest(AllArchetypes, 20)
    /\ game.recentPositions = Newest(AllPositions, 14)

\* All three histories have overflowed, and a rejected attempt came last.
C12_Witness ==
    /\ game.moveCount > 20
    /\ Len(game.recentDirections) = 12
    /\ Len(game.recentArchetypes) = 20
    /\ Len(game.recentPositions) = 14
    /\ lastOp \in {"blocked", "oob"}

\* Two cells that share a side.
Adjacent(c, d) ==
    \/ c[1] = d[1] /\ (c[2] - d[2]) \in {-1, 1}
    \/ c[2] = d[2] /\ (c[1] - d[1]) \in {-1, 1}

\* S and the non-wall cells next to a cell of S.
Grow(S) ==
    S \cup {c \in Coords : /\ game.grid[c].state # "wall"
                           /\ \E d \in S : Adjacent(c, d)}

\* The cells that a 4-connected walk over non-wall cells reaches from S:
\* the least set that contains S and is closed under Grow.
RECURSIVE Region(_)
Region(S) == UNION {IF T = S THEN S ELSE Region(T) : T \in {Grow(S)}}

PlayerC == <<game.player.x, game.player.y>>
PathToExit == ExitC \in Region({PlayerC})

\* C13: right after an accepted move that did not reach the exit, the
\* message is "Learning..." when a walk over non-wall cells leads from the
\* player to the exit; when there is none and the player still has a
\* non-wall neighbour, the message is the sealed message and a move to any
\* such neighbour is still accepted and counted.
C13_ReachabilityMessage ==
    lastOp = "moved" =>
        IF PathToExit THEN game.message = MsgLearning
        ELSE ~isTrapped(game.player, game.grid) =>
               /\ game.message = MsgSealed
               /\ \A k \in 1 .. Len(directions) :
                      LET nx == game.player.x + directions[k].x
                          ny == game.player.y + directions[k].y
                          after == attemptMove(game, directions[k].x,
                                               directions[k].y)
                      IN  (InGrid(nx, ny) /\ game.grid[<<nx, ny>>].state # "wall")
                              => /\ after.moveCount = game.moveCount + 1
                                 /\ after.player = [x |-> nx, y |-> ny]

\* A move has just cut the player off from the exit and left it a way out
\* of its tile.
C13_Witness ==
    /\ lastOp = "moved"
    /\ ~PathToExit
    /\ ~isTrapped(game.player, game.grid)
    /\ game.message = MsgSealed

\* The accepted moves before the last one that entered cell c.
EntriesBefore(c) ==
    {i \in 1 .. Len(trace) - 1 : <<trace[i].to.x, trace[i].to.y>> = c}

\* The player's most recent entry into c before the last move came from
\* the northern neighbour of c, i.e. by a move with (dx, dy) = (0, 1).
LastEnteredFromNorthSide(c) ==
    /\ EntriesBefore(c) # {}
    /\ LET i == CHOOSE j \in EntriesBefore(c) :
                    \A m \in EntriesBefore(c) : m <= j
       IN  /\ trace[i].from.x = c[1]
           /\ trace[i].from.y = c[2] - 1

\* C14: a north-entry tile other than the exit has become a wall right
\* after the accepted move that vacated it exactly when the player's most
\* recent entry into it came from its northern neighbour (x, y - 1); a tile
\* last entered from another side, or never entered, stays as it was.
C14_NorthEntryFromNorth ==
    (JustMoved /\ game.grid[Vacated].archetype = "north-entry"
               /\ Vacated # ExitC)
        => (game.grid[Vacated].state = "wall"
               <=> LastEnteredFromNorthSide(Vacated))

\* The cells that are walls after the step and were not before it.
NewWalls ==
    {c \in Coords : game.grid[c].state # "wall" /\ game'.grid[c].state = "wall"}

\* C15: a step turns a cell into a wall only if it is an accepted move, the
\* cell is the one the player stood on before the move, and the rule of
\* that cell's own archetype fires on it with the vacate counted; the
\* destination and all other cells are never turned into walls, and
\* crystallized grows by the number of new walls, which is at most one.
C15_HardeningTrailsTheMove ==
    [][ /\ \A c \in NewWalls :
               /\ lastOp' \in {"moved", "won"}
               /\ c = PlayerC
               /\ c # <<game'.player.x, game'.player.y>>
               /\ trigger(game.grid[c].archetype,
                          [game.grid[c] EXCEPT !.leaveCount = @ + 1], game)
        /\ game'.crystallized = game.crystallized + Cardinality(NewWalls)
        /\ Cardinality(NewWalls) <= 1 ]_vars

\* The last accepted move turned the tile it vacated into a wall and left
\* a neutral neighbour of the player as it was.
C15_Witness ==
    /\ lastOp = "moved"
    /\ game.grid[Vacated].state = "wall"
    /\ \E c \in Coords : Adjacent(c, PlayerC) /\ game.grid[c].state = "neutral"

\* The number of accepted moves so far that started on cell c.
Leaves(c) ==
    Cardinality({i \in 1 .. Len(trace) :
                     <<trace[i].from.x, trace[i].from.y>> = c})

C17_CrystallizedCountsWalls ==
    /\ game.crystallized = Cardinality(Walls)
    /\ lastOp = "init" => (Walls = {} /\ game.crystallized = 0)
    /\ \A c \in Walls : game.grid[c].leaveCount >= 1
    /\ game.crystallized <= game.moveCount

\* Several tiles have hardened, fewer than there were accepted moves.
C17_Witness ==
    /\ game.crystallized >= 3
    /\ game.crystallized < game.moveCount
    /\ Cardinality(Walls) = game.crystallized

\* C18: the sealed message after an accepted move means that no walk over
\* non-wall cells leads from the player to the exit, and from a state
\* without such a walk no step restores one, reaches the exit or shows the
\* win message, and every accepted move ends with the sealed message again.
C18_SealingIsIrreversible ==
    [][ /\ (lastOp' = "moved" /\ game'.message = MsgSealed) => ~PathToExit'
        /\ ~PathToExit =>
               /\ ~PathToExit'
               /\ lastOp' # "won"
               /\ game'.message # MsgWin
               /\ lastOp' = "moved" => game'.message = MsgSealed ]_vars

\* An accepted move in a session that was sealed before it: the move ended
\* with the sealed message and the tile it vacated is still open, so the
\* walls that seal the exit were there before the move.
C18_Witness ==
    /\ lastOp = "moved"
    /\ game.message = MsgSealed
    /\ game.grid[Vacated].state # "wall"
    /\ ~PathToExit

\* The fields of a tile that the move processor writes.
TileCore(t) ==
    [state |-> t.state, leaveCount |-> t.leaveCount, visits |-> t.visits,
     lastEntry |-> t.lastEntry]

\* All thresholds createGame can draw (lines 61-66).
ThresholdRange ==
    [thirdExit : 3 .. 4, frequencyWindow : 6 .. 9, frequencyCount : 3 .. 4,
     backtrackWindow : 4 .. 6]

\* C19: after the same move attempts the session and the second session,
\* whose histories are never cut, agree on every tile, on the player, on
\* the counters and on the message, and, whatever thresholds createGame
\* could have drawn, the rule of every tile gives the same answer on both
\* when the tile is vacated next.
C19_CapsNeverInfluenceRules ==
    /\ \A c \in Coords : TileCore(game.grid[c]) = TileCore(shadow.grid[c])
    /\ game.crystallized = shadow.crystallized
    /\ game.player = shadow.player
    /\ game.moveCount = shadow.moveCount
    /\ game.message = shadow.message
    /\ game.thresholds \in ThresholdRange
    /\ \A th \in ThresholdRange : \A c \in Coords :
           LET tile == [game.grid[c] EXCEPT !.leaveCount = @ + 1]
           IN  trigger(tile.archetype, tile, [game EXCEPT !.thresholds = th])
                   = trigger(tile.archetype, tile,
                             [shadow EXCEPT !.thresholds = th])

\* All three histories have dropped entries that the second session still
\* has, and the last move hardened a tile whose rule reads a history.
C19_Witness ==
    /\ Len(trace) > 20
    /\ Len(game.recentArchetypes) < Len(shadow.recentArchetypes)
    /\ Len(shadow.recentDirections) = Len(trace)
    /\ JustMoved
    /\ game.grid[Vacated].state = "wall"
    /\ game.grid[Vacated].archetype \in {"sequence", "frequency", "backtrack"}

\* C20: the player is always inside the grid on a tile that is safe or the
\* exit, never on a wall; every wall is a tile the player has left and not
\* entered since, so a tile hardens only while the player is off it.
C20_PlayerNeverOnWall ==
    /\ InGrid(game.player.x, game.player.y)
    /\ game.grid[PlayerC].state \in {"safe", "exit"}
    /\ \A c \in Walls :
           /\ c # PlayerC
           /\ \E i \in 1 .. Len(trace) :
                  /\ <<trace[i].from.x, trace[i].from.y>> = c
                  /\ \A j \in i .. Len(trace) :
                         <<trace[j].to.x, trace[j].to.y>> # c

\* The player has come off the exit again, stands on the edge of the grid
\* next to a wall, and has just tried to walk into the wall or off the
\* grid.
C20_Witness ==
    /\ lastOp \in {"blocked", "oob"}
    /\ \E c \in Walls : Adjacent(c, PlayerC)
    /\ \E k \in 1 .. Len(directions) :
           ~InGrid(game.player.x + directions[k].x,
                   game.player.y + directions[k].y)
    /\ \E i \in 1 .. Len(trace) : <<trace[i].from.x, trace[i].from.y>> = ExitC
=============================================================================
